---- MODULE Spec2Model ----
(***************************************************************************)
(* Model of the tar reader: the field codec (utils.rs), the header model   *)
(* and the sequential reader with its bounded payload view (lib.rs).       *)
(*                                                                         *)
(* A byte is a number in 0..255.  A Rust slice is a sequence; the Rust     *)
(* index i is the TLA+ index i+1, and the half-open Rust range lo..hi is   *)
(* the pair <<lo, hi>>, sliced by Slice.                                   *)
(***************************************************************************)
EXTENDS Integers, Sequences, FiniteSets, TLC

VARIABLES
    \* ---- the sequential reader (TarReader<Cursor<&[u8]>>) ----
    data,        \* the bytes behind the byte source (never written)
    pos,         \* the cursor position of the byte source
    buf,         \* TarReader.buf, the reusable 512-byte block
    to_advance,  \* TarReader.to_advance, the skip counter
    entry,       \* the TarEntry handed out by the last next_entry, if alive
    \* ---- history of the reader, read by the properties only ----
    expect,      \* which input archive the source holds (index into Archives)
    calls,       \* number of next_entry calls made
    returned,    \* header and header offset of each successful next_entry call, in order
    yielded,     \* payload bytes the current entry's view has returned, in order
    pending,     \* payload span of the current entry that nothing has consumed yet
    last,        \* what the last operation did
    \* ---- the header functions applied to one block ----
    block,       \* the input block
    chk,         \* how the input's checksum field was produced
    out          \* the function applied last and what it returned

vars == <<data, pos, buf, to_advance, entry, expect, calls, returned, yielded,
          pending, last, block, chk, out>>

readerVars == <<data, pos, buf, to_advance, entry, expect, calls, returned,
                yielded, pending, last>>

blockVars == <<block, chk, out>>

(***************************************************************************)
(* constants.rs                                                            *)
(***************************************************************************)
BLOCK_SIZE == 512

NAME_RANGE == <<0, 100>>
MODE_RANGE == <<100, 108>>
OWNER_RANGE == <<108, 116>>
GROUP_RANGE == <<116, 124>>
SIZE_RANGE == <<124, 136>>
MTIME_RANGE == <<136, 148>>
CHECKSUM_RANGE == <<148, 156>>
LINK_TYPE_OFFSET == 156
LINK_NAME_RANGE == <<157, 257>>

\* &s[r]: the slice of s over the Rust range r
Slice(s, r) == SubSeq(s, r[1] + 1, r[2])

\* s[i] with the Rust index i
At(s, i) == s[i + 1]

(***************************************************************************)
(* Option and Result values                                                *)
(***************************************************************************)
Ok(x) == [ok |-> TRUE, err |-> "", val |-> x]

Err(e) == [ok |-> FALSE, err |-> e, val |-> <<>>]

None == [some |-> FALSE, val |-> <<>>]

Some(x) == [some |-> TRUE, val |-> x]

(***************************************************************************)
(* utils.rs                                                                *)
(***************************************************************************)
\* contents.iter().find_position(|&&x| x == 0u8): the Rust index of the first
\* NUL byte, or -1 when there is none
find_position(contents) ==
    IF \E i \in 1..Len(contents) : contents[i] = 0
    THEN (CHOOSE i \in 1..Len(contents) :
              /\ contents[i] = 0
              /\ \A j \in 1..(i - 1) : contents[j] # 0) - 1
    ELSE -1

\* str::from_utf8(bytes).is_ok(), from position i on
RECURSIVE from_utf8_ok(_, _)
from_utf8_ok(s, i) ==
    IF i > Len(s) THEN TRUE
    ELSE LET b == s[i]
             cont(k) == i + k <= Len(s) /\ s[i + k] \in 128..191
         IN  IF b < 128 THEN from_utf8_ok(s, i + 1)
             ELSE IF b \in 194..223
                  THEN cont(1) /\ from_utf8_ok(s, i + 2)
             ELSE IF b \in 224..239
                  THEN /\ cont(1) /\ cont(2)
                       /\ (b = 224 => s[i + 1] >= 160)
                       /\ (b = 237 => s[i + 1] <= 159)
                       /\ from_utf8_ok(s, i + 3)
             ELSE IF b \in 240..244
                  THEN /\ cont(1) /\ cont(2) /\ cont(3)
                       /\ (b = 240 => s[i + 1] >= 144)
                       /\ (b = 244 => s[i + 1] <= 143)
                       /\ from_utf8_ok(s, i + 4)
             ELSE FALSE

trimmed_str(contents) ==
    IF Len(contents) = 0 THEN None
    ELSE LET p == find_position(contents)
         IN  IF p = 0 THEN None
             ELSE IF p > 0
                  THEN (IF from_utf8_ok(SubSeq(contents, 1, p), 1)
                        THEN Some(SubSeq(contents, 1, p))
                        ELSE None)
             ELSE None

\* trimmed_osstr taking the whole field when it holds no NUL
trimmed_osstr_unterminated(contents) ==
    IF Len(contents) = 0 THEN None
    ELSE LET p == find_position(contents)
         IN  IF p > 0 THEN Some(SubSeq(contents, 1, p))
             ELSE IF p < 0 THEN Some(contents)
             ELSE None

trimmed_osstr(contents) ==
    IF Len(contents) = 0 THEN None
    ELSE LET p == find_position(contents)
         IN  IF p > 0 THEN Some(SubSeq(contents, 1, p)) ELSE None

IsOctDigit(c) == c \in 48..55

\* the digits of text from position i on, read in base 8 onto acc
RECURSIVE radix8(_, _, _)
radix8(text, i, acc) ==
    IF i > Len(text) THEN acc
    ELSE radix8(text, i + 1, acc * 8 + (text[i] - 48))

\* T::from_str_radix(text, 8) of the primitive integer types: the empty text
\* and a lone sign are errors, '+' is accepted by every type and '-' by the
\* signed ones only, every other character must be an octal digit.  The
\* fields of a header hold at most 7 digits (u32, i32) or 11 (usize, u64), so
\* the value always fits the type.
from_str_radix(text, signed) ==
    IF Len(text) = 0 THEN Err("ParseError")
    ELSE LET sign == IF text[1] = 43 THEN 1
                     ELSE IF text[1] = 45 /\ signed THEN -1
                     ELSE 0
             digits == IF sign = 0 THEN text ELSE Tail(text)
         IN  IF Len(digits) = 0 THEN Err("ParseError")
             ELSE IF \E i \in 1..Len(digits) : ~IsOctDigit(digits[i])
                  THEN Err("ParseError")
             ELSE Ok((IF sign = -1 THEN -1 ELSE 1) * radix8(digits, 1, 0))

\* trimmed_str(size).unwrap_or("")
unwrap_or_empty(o) == IF o.some THEN o.val ELSE <<>>

parse_octal(size, signed) == from_str_radix(unwrap_or_empty(trimmed_str(size)), signed)

\* parse_size reading a field with the high bit set as a base-256 number
parse_size_base256(size) ==
    IF size[1] >= 128 THEN Ok(size[11] * 256 + size[12]) ELSE parse_octal(size, FALSE)

parse_size(size) == parse_octal(size, FALSE)

\* T::into(i32) of a byte: u8 widens to 0..255, i8 to -128..127
into_i32(b, signed) == IF signed /\ b >= 128 THEN b - 256 ELSE b

\* s.iter().cloned().map_into().sum::<i32>() over the positions lo..hi of s;
\* at most 512 terms of magnitude at most 255, so the i32 sum cannot overflow
RECURSIVE sum_i32(_, _, _, _)
sum_i32(s, lo, hi, signed) ==
    IF lo > hi THEN 0
    ELSE IF lo = hi THEN into_i32(s[lo], signed)
    ELSE LET mid == (lo + hi) \div 2
         IN  sum_i32(s, lo, mid, signed) + sum_i32(s, mid + 1, hi, signed)

\* compute_checksum summing the checksum field as it stands
compute_checksum_unmasked(b, signed) == sum_i32(b, 1, Len(b), signed)


compute_checksum(b, signed) ==
    LET checksum_bytes == Slice(b, CHECKSUM_RANGE)
        checksum_sum == sum_i32(checksum_bytes, 1, Len(checksum_bytes), signed)
    IN  sum_i32(b, 1, Len(b), signed) - checksum_sum + 32 * 8

(***************************************************************************)
(* lib.rs: LinkType and TarHeader                                          *)
(***************************************************************************)
\* LinkType::from without the NUL case
LinkType_from_digits_only(b) ==
    IF b = 48 THEN [kind |-> "Normal", ch |-> 0]
    ELSE IF b = 49 THEN [kind |-> "Hard", ch |-> 0]
    ELSE IF b = 50 THEN [kind |-> "Symbolic", ch |-> 0]
    ELSE [kind |-> "Other", ch |-> b]

\* impl From<u8> for LinkType
LinkType_from(b) ==
    IF b = 0 \/ b = 48 THEN [kind |-> "Normal", ch |-> 0]
    ELSE IF b = 49 THEN [kind |-> "Hard", ch |-> 0]
    ELSE IF b = 50 THEN [kind |-> "Symbolic", ch |-> 0]
    ELSE [kind |-> "Other", ch |-> b]

\* validate_checksum without the signed fallback
validate_checksum_unsigned_only(b) ==
    LET checksum == parse_octal(Slice(b, CHECKSUM_RANGE), TRUE)
    IN  checksum.ok /\ checksum.val = compute_checksum(b, FALSE)


validate_checksum(b) ==
    LET checksum == parse_octal(Slice(b, CHECKSUM_RANGE), TRUE)
    IN  IF ~checksum.ok THEN FALSE
        ELSE IF checksum.val = compute_checksum(b, FALSE) THEN TRUE
        ELSE checksum.val = compute_checksum(b, TRUE)

from_v7_header(b) ==
    LET name == trimmed_osstr(Slice(b, NAME_RANGE))
        mode == parse_octal(Slice(b, MODE_RANGE), FALSE)
        owner == parse_octal(Slice(b, OWNER_RANGE), FALSE)
        group == parse_octal(Slice(b, GROUP_RANGE), FALSE)
        size == parse_size(Slice(b, SIZE_RANGE))
        mtime == parse_octal(Slice(b, MTIME_RANGE), FALSE)
    IN  IF ~name.some THEN Err("EmptyName")
        ELSE IF ~mode.ok THEN Err(mode.err)
        ELSE IF ~owner.ok THEN Err(owner.err)
        ELSE IF ~group.ok THEN Err(group.err)
        ELSE IF ~size.ok THEN Err(size.err)
        ELSE IF ~mtime.ok THEN Err(mtime.err)
        ELSE Ok([name |-> name.val,
                 mode |-> mode.val,
                 owner |-> owner.val,
                 group |-> group.val,
                 size |-> size.val,
                 mtime |-> mtime.val,
                 link |-> LinkType_from(At(b, LINK_TYPE_OFFSET)),
                 link_name |-> trimmed_osstr(Slice(b, LINK_NAME_RANGE))])

\* from_block decoding the fields before it looks at the checksum
from_block_decode_first(b) ==
    LET header == from_v7_header(b)
    IN  IF ~header.ok THEN header
        ELSE IF ~validate_checksum(b) THEN Err("CheckSum")
        ELSE header


from_block(b) ==
    IF ~validate_checksum(b) THEN Err("CheckSum") ELSE from_v7_header(b)

\* block_size counting one block more whatever the remainder
block_size_always_up(header) == header.size \div BLOCK_SIZE + 1

\* block_size without the block of the remainder
block_size_floor(header) == header.size \div BLOCK_SIZE

block_size(header) ==
    LET size == header.size \div BLOCK_SIZE
    IN  IF header.size % BLOCK_SIZE # 0 THEN size + 1 ELSE size

(***************************************************************************)
(* Inputs: header blocks and archives written the way tar writes them.     *)
(* An entry is described by its field values and its payload; the writer   *)
(* below is independent of the decoder above.                              *)
(***************************************************************************)
Zeros(n) == [i \in 1..n |-> 0]

ZeroBlock == Zeros(BLOCK_SIZE)

Pad(s, n) == s \o Zeros(n - Len(s))

\* n written with w octal digits, zero padded
RECURSIVE OctDigits(_, _)
OctDigits(n, w) == IF w = 0 THEN <<>> ELSE Append(OctDigits(n \div 8, w - 1), 48 + (n % 8))

\* reference checksum: the 504 bytes outside bytes 148-155 plus 8 spaces
OutsideSum(b, signed) ==
    sum_i32(b, 1, 148, signed) + sum_i32(b, 157, BLOCK_SIZE, signed) + 8 * 32

\* the block with v written into the checksum field as six octal digits,
\* a NUL and a space
WithChecksum(b, v) ==
    SubSeq(b, 1, 148) \o OctDigits(v, 6) \o <<0, 32>> \o SubSeq(b, 157, BLOCK_SIZE)

\* the header block of entry e, checksum field still blank
RawHeader(e) ==
    Pad(e.name, 100) \o e.modeField \o e.ownerField \o e.groupField
        \o OctDigits(e.size, 11) \o <<0>> \o OctDigits(e.mtime, 11) \o <<0>>
        \o <<32, 32, 32, 32, 32, 32, 32, 32>> \o <<e.linkByte>>
        \o Pad(e.link_name, 100) \o Zeros(BLOCK_SIZE - 257)

MakeHeader(e) == WithChecksum(RawHeader(e), OutsideSum(RawHeader(e), FALSE))

\* payload of e followed by padding ('#' bytes) up to the next multiple of 512
PaddedPayload(e) ==
    e.payload \o [i \in 1..((BLOCK_SIZE - (e.size % BLOCK_SIZE)) % BLOCK_SIZE) |-> 35]

EntryBytes(e) == MakeHeader(e) \o PaddedPayload(e)

Field7(n) == OctDigits(n, 7) \o <<0>>

Payload(n) == [i \in 1..n |-> 1 + (i % 250)]

EntryOf(name, size, linkByte, link_name) ==
    [name |-> name, modeField |-> Field7(420), ownerField |-> Field7(1000),
     groupField |-> Field7(100), size |-> size, mtime |-> 1234567,
     linkByte |-> linkByte, link_name |-> link_name, payload |-> Payload(size)]

\* the header a correct decoder returns for entry e (numeric fields written
\* by Field7 only)
HeaderOf(e, mode, owner, group, link) ==
    [name |-> e.name, mode |-> mode, owner |-> owner, group |-> group,
     size |-> e.size, mtime |-> e.mtime, link |-> link,
     link_name |-> IF Len(e.link_name) = 0 THEN None ELSE Some(e.link_name)]

EA == EntryOf(<<97>>, 0, 48, <<>>)                     \* "a", empty
EB == EntryOf(<<98, 46, 116>>, 3, 0, <<>>)              \* "b.t", 3 bytes
EC == EntryOf(<<99>>, 512, 50, <<97>>)                 \* "c" -> "a", one full block
ED == EntryOf(<<100>>, 513, 49, <<98, 46, 116>>)        \* "d", two blocks

\* "foo\0bar", a 100-byte name without NUL, and owner and group fields of
\* NUL bytes only (header blocks only, no payload)
EFoo == [EntryOf(<<102, 111, 111, 0, 98, 97, 114>>, 513, 49, <<195, 169>>)
            EXCEPT !.payload = <<>>]

ELong == [EntryOf([i \in 1..100 |-> 120], 512, 50, <<97>>) EXCEPT !.payload = <<>>]

ENoOwner == [EntryOf(<<97>>, 1024, 48, <<>>)
                EXCEPT !.ownerField = Zeros(8), !.groupField = Zeros(8),
                       !.payload = <<>>]

Normal == [kind |-> "Normal", ch |-> 0]
Hard == [kind |-> "Hard", ch |-> 0]
Symbolic == [kind |-> "Symbolic", ch |-> 0]

HA == HeaderOf(EA, 420, 1000, 100, Normal)
HB == HeaderOf(EB, 420, 1000, 100, Normal)
HC == HeaderOf(EC, 420, 1000, 100, Symbolic)
HD == HeaderOf(ED, 420, 1000, 100, Hard)

\* a header block whose checksum field is wrong
BadBlock == WithChecksum(RawHeader(EA), OutsideSum(RawHeader(EA), FALSE) + 1)

\* The input archives: wf says that the archive is consecutive well-formed
\* entries followed by all-zero blocks only; headers are the headers of its
\* entries in archive order.
Archives ==
    << [bytes |-> EntryBytes(EA) \o EntryBytes(EB) \o ZeroBlock \o ZeroBlock,
        wf |-> TRUE, headers |-> <<HA, HB>>],
       [bytes |-> EntryBytes(EB) \o EntryBytes(EC) \o ZeroBlock,
        wf |-> TRUE, headers |-> <<HB, HC>>],
       [bytes |-> EntryBytes(ED) \o ZeroBlock,
        wf |-> TRUE, headers |-> <<HD>>],
       \* payload cut short: the source ends 2 bytes into the payload of EB
       [bytes |-> SubSeq(EntryBytes(EB), 1, BLOCK_SIZE + 2),
        wf |-> FALSE, headers |-> <<HB>>],
       \* the source ends 100 bytes into the second header block
       [bytes |-> EntryBytes(EA) \o SubSeq(MakeHeader(EB), 1, 100),
        wf |-> FALSE, headers |-> <<HA>>],
       \* the source ends on a block boundary, no end marker
       [bytes |-> EntryBytes(EB),
        wf |-> FALSE, headers |-> <<HB>>],
       \* an entry stored behind the end marker
       [bytes |-> EntryBytes(EA) \o ZeroBlock \o EntryBytes(EB) \o ZeroBlock,
        wf |-> FALSE, headers |-> <<HA>>],
       \* a block with a wrong checksum, then an entry
       [bytes |-> BadBlock \o EntryBytes(EA) \o ZeroBlock,
        wf |-> FALSE, headers |-> <<>>],
       \* an entry, then a block with a valid checksum and an empty owner field
       [bytes |-> EntryBytes(EB) \o MakeHeader(ENoOwner) \o ZeroBlock,
        wf |-> FALSE, headers |-> <<HB>>] >>

\* buffer lengths a caller passes to Entry.read
BufLens == {0, 1, 2, 600}

\* next_entry is called at most MaxCalls times in a run
MaxCalls == 4

(***************************************************************************)
(* The byte source: std::io::Cursor over the archive bytes                 *)
(***************************************************************************)
Min(a, b) == IF a < b THEN a ELSE b

\* Cursor::read with a buffer of n bytes at position p: the count returned
\* (the position may lie behind the end after a seek)
cursor_read(d, p, n) == Min(n, IF p < Len(d) THEN Len(d) - p ELSE 0)

\* the bytes that read delivers
cursor_bytes(d, p, n) == SubSeq(d, p + 1, p + cursor_read(d, p, n))

(***************************************************************************)
(* lib.rs: TarEntry and TarReader                                          *)
(***************************************************************************)
NoEntry == [live |-> FALSE, header |-> <<>>, to_read |-> 0]

\* TarEntry::new
TarEntry_new(header) == [live |-> TRUE, header |-> header, to_read |-> header.size]

\* max_len without the bound by the remaining payload
max_len_unbounded(n, to_read) == n

\* max_len one short of the remaining payload
max_len_off_by_one(n, to_read) == IF to_read > 0 THEN Min(n, to_read - 1) ELSE 0

\* TarEntry::read, line 188: max_len
max_len(n, to_read) == Min(n, to_read)

\* TarEntry::read, lines 191-192: what is taken off to_advance and to_read
\* after the underlying read of at most mx bytes returned read
consumed(mx, read) == read

\* next_entry without the seek over the unread payload
seek_pending_never(p, adv) == p

\* next_entry seeking from the start of the source
seek_pending_from_start(p, adv) == IF adv > 0 THEN adv ELSE p

\* TarReader::next_entry, lines 216-218: the position after the seek
seek_pending(p, adv) == IF adv > 0 THEN p + adv ELSE p

\* only an empty read taken as the end of the source
short_block_empty_only(read) == read = 0

\* TarReader::next_entry, line 221
short_block(read) == read # BLOCK_SIZE

\* next_entry without the end-of-archive test
all_zero_never(b) == FALSE

\* TarReader::next_entry, line 225
all_zero(b) == \A i \in 1..Len(b) : b[i] = 0

\* the skip counter set to the payload size, padding left out
skip_of_unpadded(header) == header.size

\* TarReader::next_entry, line 231
skip_of(header) == block_size(header) * BLOCK_SIZE

\* next_entry clearing the skip counter when the block is no header
decode_block_reset(b, adv) ==
    IF all_zero(b) THEN [result |-> Err("FileEnd"), to_advance |-> 0]
    ELSE LET header == from_block(b)
         IN  IF ~header.ok THEN [result |-> Err(header.err), to_advance |-> 0]
             ELSE [result |-> header, to_advance |-> skip_of(header.val)]

\* TarReader::next_entry, lines 225-233 on a full block b: the result and the
\* skip counter
decode_block(b, adv) ==
    IF all_zero(b) THEN [result |-> Err("FileEnd"), to_advance |-> adv]
    ELSE LET header == from_block(b)
         IN  IF ~header.ok THEN [result |-> Err(header.err), to_advance |-> adv]
             ELSE [result |-> header, to_advance |-> skip_of(header.val)]

\* TarReader::next_entry as a function of the reader's state
next_entry(d, p, b, adv) ==
    LET p1 == seek_pending(p, adv)
        read == cursor_read(d, p1, BLOCK_SIZE)
        b1 == cursor_bytes(d, p1, BLOCK_SIZE) \o SubSeq(b, read + 1, BLOCK_SIZE)
        dec == IF short_block(read)
               THEN [result |-> Err("FileEnd"), to_advance |-> adv]
               ELSE decode_block(b1, adv)
    IN  [pos |-> p1 + read, buf |-> b1, read |-> read, at |-> p1,
         result |-> dec.result, to_advance |-> dec.to_advance]

NoLast == [op |-> "new", ok |-> TRUE, err |-> "", read |-> 0, n |-> 0,
           adv0 |-> 0, pos0 |-> 0, to_read0 |-> 0, failedBefore |-> FALSE]

\* TarReader::new over one of the input archives
Init ==
    /\ expect \in 1..Len(Archives)
    /\ data = Archives[expect].bytes
    /\ pos = 0
    /\ buf = ZeroBlock
    /\ to_advance = 0
    /\ entry = NoEntry
    /\ calls = 0
    /\ returned = <<>>
    /\ yielded = <<>>
    /\ pending = 0
    /\ last = NoLast
    /\ block = ZeroBlock
    /\ chk = "none"
    /\ out = [fn |-> "none", arg |-> "", res |-> <<>>]

\* reader.next_entry()
NextEntry ==
    /\ calls < MaxCalls
    /\ LET r == next_entry(data, pos, buf, to_advance)
       IN  /\ pos' = r.pos
           /\ buf' = r.buf
           /\ to_advance' = r.to_advance
           /\ entry' = IF r.result.ok THEN TarEntry_new(r.result.val) ELSE NoEntry
           /\ returned' = IF r.result.ok
                          THEN Append(returned, [header |-> r.result.val, at |-> r.at])
                          ELSE returned
           /\ yielded' = <<>>
           \* the seek consumes the pending span; a new entry brings its own
           /\ pending' = IF r.result.ok THEN skip_of(r.result.val) ELSE 0
           /\ last' = [op |-> "next_entry", ok |-> r.result.ok, err |-> r.result.err,
                       read |-> r.read, n |-> BLOCK_SIZE, adv0 |-> to_advance,
                       pos0 |-> pos, to_read0 |-> 0,
                       failedBefore |-> \/ last.failedBefore
                                        \/ (last.op = "next_entry" /\ ~last.ok)]
    /\ calls' = calls + 1
    /\ UNCHANGED <<data, expect, blockVars>>

\* entry.read(&mut buf) with a buffer of n bytes
EntryRead(n) ==
    /\ entry.live
    /\ LET mx == max_len(n, entry.to_read)
           read == cursor_read(data, pos, mx)
       IN  /\ pos' = pos + read
           /\ to_advance' = to_advance - consumed(mx, read)
           /\ entry' = [entry EXCEPT !.to_read = @ - consumed(mx, read)]
           /\ yielded' = yielded \o cursor_bytes(data, pos, mx)
           /\ pending' = pending - read
           /\ last' = [op |-> "read", ok |-> TRUE, err |-> "", read |-> read,
                       n |-> n, adv0 |-> to_advance, pos0 |-> pos,
                       to_read0 |-> entry.to_read,
                       failedBefore |-> last.failedBefore]
    /\ UNCHANGED <<data, buf, expect, calls, returned, blockVars>>

\* entry.read(&mut buf) when the underlying read fails: the ? of line 189
\* returns the error before either counter is touched.  Cursor never fails;
\* this is the read of any other source, which by the contract of io::Read
\* has then read no bytes.
EntryReadFailed(n) ==
    /\ entry.live
    /\ last' = [op |-> "read", ok |-> FALSE, err |-> "IOError", read |-> 0,
                n |-> n, adv0 |-> to_advance, pos0 |-> pos,
                to_read0 |-> entry.to_read,
                failedBefore |-> last.failedBefore]
    /\ UNCHANGED <<data, pos, buf, to_advance, entry, expect, calls, returned,
                   yielded, pending, blockVars>>

Next ==
    \/ NextEntry
    \/ \E n \in BufLens : EntryRead(n)
    \/ \E n \in BufLens : EntryReadFailed(n)

Spec == Init /\ [][Next]_vars

(***************************************************************************)
(* The header functions on one block: the inputs are header blocks with    *)
(* one byte overwritten and the checksum field then written in one of      *)
(* four ways.                                                              *)
(***************************************************************************)
BaseBlocks == {RawHeader(EB), RawHeader(EFoo), RawHeader(ELong),
               RawHeader(ENoOwner), ZeroBlock}

\* Rust index and new value of the overwritten byte; index -1 overwrites nothing
Pokes ==
    {<<-1, 0>>}
        \cup ({0, 1, 99, 100, 101, 107, 108, 116, 124, 134, 135, 136, 148, 155}
                  \X {0, 32, 43, 45, 49, 56, 128})

Poke(b, p) == IF p[1] < 0 THEN b ELSE [b EXCEPT ![p[1] + 1] = p[2]]

ChkKinds == {"none", "unsigned", "signed", "wrong"}

\* b with its checksum field written from the unsigned sum, from the signed
\* sum (when that is not negative), from a wrong sum, or left as it is
Fix(b, k) ==
    IF k = "unsigned" THEN WithChecksum(b, OutsideSum(b, FALSE))
    ELSE IF k = "signed" /\ OutsideSum(b, TRUE) >= 0
         THEN WithChecksum(b, OutsideSum(b, TRUE))
    ELSE IF k = "wrong" THEN WithChecksum(b, OutsideSum(b, FALSE) + 1)
    ELSE b

PokeInputs ==
    {[block |-> Fix(Poke(b, p), k), chk |-> k] :
         b \in BaseBlocks, p \in Pokes, k \in ChkKinds}

\* size fields whose first byte has the high bit set: the base-256 encoding
\* of 512, twelve 0xFF bytes, a two-byte UTF-8 character, 0x80 in front of
\* octal digits, and a digit with the high bit set
HighSizeFields ==
    {<<128, 0, 0, 0, 0, 0, 0, 0, 0, 0, 2, 0>>,
     [i \in 1..12 |-> 255],
     <<194, 128, 0, 0, 0, 0, 0, 0, 0, 0, 0, 0>>,
     <<128, 48, 48, 48, 48, 48, 48, 48, 48, 48, 51, 0>>,
     <<177, 48, 0, 0, 0, 0, 0, 0, 0, 0, 0, 0>>}

WithSizeField(b, f) == SubSeq(b, 1, 124) \o f \o SubSeq(b, 137, BLOCK_SIZE)

HighSizeInputs ==
    {[block |-> Fix(WithSizeField(RawHeader(EB), f), k), chk |-> k] :
         f \in HighSizeFields, k \in ChkKinds}

\* sizes around the block boundaries
SizeValues == {0, 1, 511, 512, 513, 1023, 1024, 1025}

SizeInputs ==
    {[block |-> MakeHeader([EB EXCEPT !.size = sz]), chk |-> "unsigned"] :
         sz \in SizeValues}

\* every value of the link type byte
LinkInputs ==
    {[block |-> Fix(Poke(RawHeader(EB), <<LINK_TYPE_OFFSET, c>>), "unsigned"),
      chk |-> "unsigned"] : c \in 0..255}

Inputs == PokeInputs \cup HighSizeInputs \cup SizeInputs \cup LinkInputs

NumericFields == {"mode", "owner", "group", "size", "mtime", "checksum"}

FieldRange(f) ==
    CASE f = "mode" -> MODE_RANGE
      [] f = "owner" -> OWNER_RANGE
      [] f = "group" -> GROUP_RANGE
      [] f = "size" -> SIZE_RANGE
      [] f = "mtime" -> MTIME_RANGE
      [] f = "checksum" -> CHECKSUM_RANGE

InitBlock ==
    /\ \E inp \in Inputs : block = inp.block /\ chk = inp.chk
    /\ out = [fn |-> "none", arg |-> "", res |-> <<>>]
    /\ expect = 1
    /\ data = <<>>
    /\ pos = 0
    /\ buf = ZeroBlock
    /\ to_advance = 0
    /\ entry = NoEntry
    /\ calls = 0
    /\ returned = <<>>
    /\ yielded = <<>>
    /\ pending = 0
    /\ last = NoLast

\* one function is applied to each input
Apply(fn, arg, res) ==
    /\ out.fn = "none"
    /\ out' = [fn |-> fn, arg |-> arg, res |-> res]
    /\ UNCHANGED <<block, chk, readerVars>>

\* TarHeader::validate_checksum(&block)
CallValidateChecksum == Apply("validate_checksum", "", validate_checksum(block))

\* TarHeader::from_block(&block)
CallFromBlock == Apply("from_block", "", from_block(block))

\* TarHeader::from_v7_header(&block)
CallFromV7Header == Apply("from_v7_header", "", from_v7_header(block))

\* compute_checksum(&block) over u8 or over i8
CallComputeChecksum(signed) ==
    Apply("compute_checksum", IF signed THEN "i8" ELSE "u8",
          compute_checksum(block, signed))

\* parse_octal(&block[RANGE]) the way from_v7_header and validate_checksum
\* call it on field f
CallParseOctal(f) ==
    Apply("parse_octal", f, parse_octal(Slice(block, FieldRange(f)), f = "checksum"))

\* parse_size(&block[SIZE_RANGE])
CallParseSize == Apply("parse_size", "size", parse_size(Slice(block, SIZE_RANGE)))

\* header.block_size() of the header decoded from the block
CallBlockSize ==
    /\ from_v7_header(block).ok
    /\ LET header == from_v7_header(block).val
       IN  Apply("block_size", "", [size |-> header.size, blocks |-> block_size(header)])

\* LinkType::from(block[LINK_TYPE_OFFSET])
CallLinkTypeFrom == Apply("LinkType::from", "", LinkType_from(At(block, LINK_TYPE_OFFSET)))

NextBlock ==
    \/ CallValidateChecksum
    \/ CallFromBlock
    \/ CallFromV7Header
    \/ \E signed \in BOOLEAN : CallComputeChecksum(signed)
    \/ \E f \in NumericFields : CallParseOctal(f)
    \/ CallParseSize
    \/ CallBlockSize
    \/ CallLinkTypeFrom

SpecBlock == InitBlock /\ [][NextBlock]_vars

(***************************************************************************)
(* Properties of the reader (specification Spec)                           *)
(***************************************************************************)
Arch == Archives[expect]

\* the entry that is current: the one the last successful next_entry returned
Cur == returned[Len(returned)]

SameResult(r1, r2) ==
    /\ r1.ok = r2.ok
    /\ r1.err = r2.err
    /\ (r1.ok => r1.val = r2.val)

\* C1: on an archive of consecutive well-formed entries followed by all-zero
\* blocks, whatever was read of the payloads in between, the k-th call of
\* next_entry succeeds for every k up to the number of entries, there is no
\* further successful call, and the k-th successful call returns the header
\* of the k-th entry unchanged.
C1_HeadersInOrder ==
    Arch.wf =>
        /\ Len(returned) = Min(calls, Len(Arch.headers))
        /\ \A k \in 1..Len(returned) : returned[k].header = Arch.headers[k]

\* the second entry is returned after one byte of the first entry's three
\* payload bytes was read
C1_Witness ==
    /\ Arch.wf
    /\ Len(returned) = 2
    /\ last.op = "next_entry"
    /\ last.ok
    /\ last.adv0 = BLOCK_SIZE - 1

\* C2: every Entry.read returns at most min(buffer length, size minus bytes
\* already returned); the bytes returned so far are a prefix of the size
\* payload bytes that follow the header block; when the whole payload is in
\* the source, a read into a non-empty buffer returns 0 only after exactly
\* size bytes were delivered; and on a well-formed archive every next_entry
\* call after the last entry fails with FileEnd.
C2_ReadBounded ==
    /\ (last.op = "read" =>
            last.read <= Min(last.n, Cur.header.size - (Len(yielded) - last.read)))
    /\ (entry.live =>
            /\ Len(yielded) <= Cur.header.size
            /\ yielded = SubSeq(data, Cur.at + BLOCK_SIZE + 1,
                                Cur.at + BLOCK_SIZE + Len(yielded)))
    /\ ((last.op = "read" /\ last.ok /\ last.n > 0 /\ last.read = 0) =>
            (Cur.at + BLOCK_SIZE + Cur.header.size <= Len(data)
                 => Len(yielded) = Cur.header.size))
    /\ (Arch.wf /\ last.op = "next_entry" /\ calls > Len(Arch.headers)
            => ~last.ok /\ last.err = "FileEnd")

\* a 513-byte payload has been read to its end with a larger buffer: the read
\* that returns 0 finds 511 padding bytes in front of the cursor
C2_Witness ==
    /\ last.op = "read"
    /\ last.ok
    /\ last.n = 600
    /\ last.read = 0
    /\ Len(yielded) = 513
    /\ to_advance = 511

\* C3: in every state the skip counter equals the padded payload span of the
\* current entry that nothing has consumed yet: the span set by next_entry,
\* less every byte the entry's view has yielded, and nothing once the seek of
\* a later next_entry has flushed it.
C3_SkipCounterIsPending == to_advance = pending

\* C4: once a next_entry call has failed, no later next_entry call on the
\* same reader returns an entry.
C4_EndedIsTerminal == (last.op = "next_entry" /\ last.failedBefore) => ~last.ok

\* C5: a next_entry call whose block read returns fewer than 512 bytes fails
\* with FileEnd and hands out no entry.
C5_ShortBlockIsFileEnd ==
    (last.op = "next_entry" /\ last.read < BLOCK_SIZE) =>
        /\ ~last.ok
        /\ last.err = "FileEnd"
        /\ ~entry.live

\* the block read returned the first 100 bytes of a header
C5_Witness == last.op = "next_entry" /\ last.read = 100 /\ buf[1] # 0

\* C6: a next_entry call that reads a full block of zero bytes fails with
\* FileEnd and leaves the skip counter as it was before the call.
C6_ZeroBlockIsFileEnd ==
    (last.op = "next_entry" /\ last.read = BLOCK_SIZE /\ buf = ZeroBlock) =>
        /\ ~last.ok
        /\ last.err = "FileEnd"
        /\ to_advance = last.adv0

\* the end marker is read while a skip of a whole block is still recorded
C6_Witness ==
    /\ last.op = "next_entry"
    /\ last.read = BLOCK_SIZE
    /\ buf = ZeroBlock
    /\ last.adv0 = BLOCK_SIZE

(***************************************************************************)
(* Properties of the header functions (specification SpecBlock)            *)
(***************************************************************************)
\* C7: from_block returns CheckSum exactly when validate_checksum is false,
\* whatever the other fields hold, and otherwise returns what from_v7_header
\* returns, errors included.
C7_ChecksumFirst ==
    out.fn = "from_block" =>
        /\ (out.res.err = "CheckSum") <=> ~validate_checksum(block)
        /\ (validate_checksum(block) => SameResult(out.res, from_v7_header(block)))

\* the checksum is wrong and the name is empty: the result is CheckSum
C7_Witness ==
    /\ out.fn = "from_block"
    /\ out.res.err = "CheckSum"
    /\ from_v7_header(block).err = "EmptyName"

\* C8: validate_checksum returns a boolean, which is true exactly when the
\* checksum field parses as octal and its value is the sum of the block with
\* the field masked by spaces, bytes read as unsigned or as signed.
C8_ValidateChecksum ==
    out.fn = "validate_checksum" =>
        LET field == parse_octal(Slice(block, CHECKSUM_RANGE), TRUE)
        IN  /\ out.res \in BOOLEAN
            /\ out.res <=> /\ field.ok
                           /\ \/ field.val = OutsideSum(block, FALSE)
                              \/ field.val = OutsideSum(block, TRUE)

\* a block accepted on its signed sum only
C8_Witness ==
    /\ out.fn = "validate_checksum"
    /\ out.res = TRUE
    /\ chk = "signed"
    /\ OutsideSum(block, TRUE) # OutsideSum(block, FALSE)

\* C9: compute_checksum is the sum of the 504 bytes outside the checksum
\* field plus 8*32, and a block whose checksum field holds that (unsigned)
\* sum as NUL-terminated octal text passes validate_checksum.
C9_ChecksumRoundTrip ==
    /\ (out.fn = "compute_checksum" => out.res = OutsideSum(block, out.arg = "i8"))
    /\ (out.fn = "validate_checksum" /\ chk = "unsigned" => out.res = TRUE)

\* a block that is no decodable header, its checksum field written from its sum
C9_Witness ==
    /\ out.fn = "validate_checksum"
    /\ chk = "unsigned"
    /\ out.res = TRUE
    /\ ~from_v7_header(block).ok

\* C10: parse_octal of a numeric field whose first byte is NUL returns zero.
C10_EmptyFieldIsZero ==
    (out.fn = "parse_octal" /\ Slice(block, FieldRange(out.arg))[1] = 0) =>
        out.res.ok /\ out.res.val = 0

\* a byte that is neither NUL nor an octal digit stands in front of the
\* first NUL of the field (or anywhere in a field without NUL)
NonOctalBeforeNul(field) ==
    \E i \in 1..Len(field) :
        /\ field[i] # 0
        /\ field[i] \notin 48..55
        /\ \A j \in 1..(i - 1) : field[j] # 0

\* C11: from_block of a block with a valid checksum whose mode field holds a
\* byte other than '0'..'7' in front of its first NUL fails with ParseError,
\* and parse_octal fails with ParseError whenever the text in front of the
\* first NUL holds a character that is no octal digit.  (Blocks without a
\* name are left aside: they fail with EmptyName before the mode is parsed.)
C11_NonOctalIsParseError ==
    /\ (/\ out.fn = "from_block"
        /\ validate_checksum(block)
        /\ trimmed_osstr(Slice(block, NAME_RANGE)).some
        /\ NonOctalBeforeNul(Slice(block, MODE_RANGE)))
           => (~out.res.ok /\ out.res.err = "ParseError")
    /\ (out.fn = "parse_octal" /\ NonOctalBeforeNul(Slice(block, FieldRange(out.arg))))
           => (~out.res.ok /\ out.res.err = "ParseError")

\* C12: parse_size of a size field whose first byte has the high bit set is
\* a parse failure, whatever the other eleven bytes hold.
C12_BinarySizeRejected ==
    (out.fn = "parse_size" /\ Slice(block, SIZE_RANGE)[1] >= 128) =>
        (~out.res.ok /\ out.res.err = "ParseError")

\* the base-256 encoding of 512 is rejected
C12_Witness ==
    /\ out.fn = "parse_size"
    /\ Slice(block, SIZE_RANGE) = <<128, 0, 0, 0, 0, 0, 0, 0, 0, 0, 2, 0>>
    /\ ~out.res.ok

\* C14: block_size is ceil(size/512): 0 for size 0, size/512 for a multiple
\* of 512, one more than the quotient otherwise; so block_size*512 is at
\* least size and exceeds it by less than 512.
C14_BlockSizeIsCeil ==
    out.fn = "block_size" =>
        LET size == out.res.size
            n == out.res.blocks
        IN  /\ (size = 0 => n = 0)
            /\ (size % 512 = 0 => n = size \div 512)
            /\ (size % 512 # 0 => n = (size \div 512) + 1)
            /\ (size = 512 => n = 1) /\ (size = 513 => n = 2) /\ (size = 1024 => n = 2)
            /\ n * 512 >= size
            /\ n * 512 - size < 512

C14_Witness == out.fn = "block_size" /\ out.res = [size |-> 513, blocks |-> 2]

\* the bytes of field in front of its first NUL
RECURSIVE UpToNul(_)
UpToNul(field) ==
    IF field = <<>> \/ Head(field) = 0 THEN <<>>
    ELSE <<Head(field)>> \o UpToNul(Tail(field))

\* C15: decoding fails with EmptyName when the first byte of the name field
\* is NUL and when the field holds no NUL at all; otherwise it never fails
\* with EmptyName and a decoded name is the bytes in front of the first NUL.
C15_NameDecoding ==
    out.fn = "from_v7_header" =>
        LET field == Slice(block, NAME_RANGE)
        IN  IF field[1] = 0 \/ (\A i \in 1..100 : field[i] # 0)
            THEN ~out.res.ok /\ out.res.err = "EmptyName"
            ELSE /\ out.res.err # "EmptyName"
                 /\ (out.res.ok => out.res.val.name = UpToNul(field))

\* a name field of 100 bytes without NUL gives EmptyName
C15_Witness ==
    /\ out.fn = "from_v7_header"
    /\ \A i \in 1..100 : block[i] # 0
    /\ out.res.err = "EmptyName"

\* C16: LinkType::from maps NUL and '0' to Normal, '1' to Hard, '2' to
\* Symbolic and every other byte c to Other(c); a decoded header carries
\* that link type, and no value of byte 156 makes the decoding of an
\* otherwise good block fail.
C16_LinkTypeTotal ==
    LET c == At(block, LINK_TYPE_OFFSET)
        want == IF c \in {0, 48} THEN Normal
                ELSE IF c = 49 THEN Hard
                ELSE IF c = 50 THEN Symbolic
                ELSE [kind |-> "Other", ch |-> c]
    IN  /\ (out.fn = "LinkType::from" => out.res = want)
        /\ (out.fn = "from_v7_header" /\ out.res.ok => out.res.val.link = want)
        /\ (out.fn = "from_v7_header"
                /\ block = Fix(Poke(RawHeader(EB), <<LINK_TYPE_OFFSET, c>>), "unsigned")
                => out.res.ok)

\* byte 156 is NUL and the link type is Normal
C16_Witness ==
    /\ out.fn = "LinkType::from"
    /\ At(block, LINK_TYPE_OFFSET) = 0
    /\ out.res = Normal
    /\ chk = "unsigned"

(***************************************************************************)
(* Further properties of the reader (specifications Spec and SpecFair)     *)
(***************************************************************************)
\* some next_entry call has failed
AnyFailed == last.failedBefore \/ (last.op = "next_entry" /\ ~last.ok)

\* C13 as stated: Entry.read returns 0 only when the buffer is empty or the
\* payload is exhausted.
C13_ZeroMeansEmptyOrExhausted ==
    (last.op = "read" /\ last.ok /\ last.read = 0) =>
        (last.n = 0 \/ last.to_read0 = 0)

\* C13 amended: Entry.read returns 0 only when the buffer is empty, the
\* payload is exhausted, or the source holds no byte at the cursor (the
\* archive ends inside the payload).
C13_ZeroMeansEmptyExhaustedOrEof ==
    (last.op = "read" /\ last.ok /\ last.read = 0) =>
        (last.n = 0 \/ last.to_read0 = 0 \/ last.pos0 >= Len(data))

\* a read into a non-empty buffer returns 0 at the end of a source that ends
\* inside the payload, with payload bytes still owed
C13_Witness ==
    /\ last.op = "read"
    /\ last.ok
    /\ last.read = 0
    /\ last.n > 0
    /\ last.to_read0 > 0
    /\ last.pos0 = Len(data)

\* C17: while no next_entry call has failed, the source position plus the
\* skip counter is the offset of the next header block (0 before the first
\* call, else the end of the current entry's padded payload), that offset is
\* a multiple of 512, and every header that was decoded started at a
\* multiple of 512.
C17_CursorConsistency ==
    ~AnyFailed =>
        /\ pos + to_advance =
               (IF returned = <<>> THEN 0
                ELSE Cur.at + BLOCK_SIZE
                         + 512 * ((Cur.header.size + 511) \div 512))
        /\ (pos + to_advance) % 512 = 0
        /\ \A k \in 1..Len(returned) : returned[k].at % 512 = 0

\* the second entry's payload is being read after a partial read of the first
C17_Witness ==
    /\ ~AnyFailed
    /\ Len(returned) = 2
    /\ returned[2].at = 1024
    /\ last.op = "read"
    /\ last.ok
    /\ Len(yielded) = 3
    /\ to_advance = 509

\* C18: a failing next_entry leaves the skip counter at its pre-call value
\* although its seek has moved the source over that amount, and the next
\* next_entry call seeks forward by the same amount again.
C18_FailureKeepsSkip ==
    /\ []((last.op = "next_entry" /\ ~last.ok) =>
              /\ to_advance = last.adv0
              /\ pos = last.pos0 + last.adv0 + last.read)
    /\ [][(last.op = "next_entry" /\ ~last.ok /\ calls' = calls + 1) =>
              /\ last'.adv0 = last.adv0
              /\ pos' = pos + last.adv0 + last'.read]_vars

\* two failing calls in a row, each of which skipped the same 512 bytes
C18_Witness ==
    /\ last.op = "next_entry"
    /\ ~last.ok
    /\ last.failedBefore
    /\ last.adv0 = BLOCK_SIZE
    /\ pos >= last.pos0 + BLOCK_SIZE
    /\ to_advance = BLOCK_SIZE

\* C19: while an entry is live, 0 <= to_read <= to_advance and to_advance
\* exceeds to_read by the entry's padding, which lies in 0..511; the count a
\* read takes off the two counters never exceeds either; a failed read
\* leaves both as they were.
C19_NoUnderflow ==
    /\ (entry.live =>
            /\ 0 <= entry.to_read
            /\ entry.to_read <= to_advance
            /\ to_advance - entry.to_read
                   = 512 * ((Cur.header.size + 511) \div 512) - Cur.header.size
            /\ to_advance - entry.to_read \in 0..511)
    /\ (last.op = "read" =>
            /\ last.read <= last.to_read0
            /\ last.read <= last.adv0
            /\ to_advance = last.adv0 - last.read
            /\ entry.to_read = last.to_read0 - last.read)
    /\ (last.op = "read" /\ ~last.ok =>
            /\ to_advance = last.adv0
            /\ entry.to_read = last.to_read0
            /\ pos = last.pos0)

\* the underlying read failed in the middle of a payload
C19_Witness ==
    /\ last.op = "read"
    /\ ~last.ok
    /\ entry.to_read = 2
    /\ to_advance = 511

\* C20: no operation leaves the source position in front of where it found
\* it, each successful next_entry reads its header at least 512 bytes behind
\* the header of the successful call before it, so a source of n bytes
\* allows at most n/512 successful calls: among any n/512 + 1 calls of
\* next_entry one has failed.
C20_Terminates ==
    /\ pos >= last.pos0
    /\ \A k \in 1..(Len(returned) - 1) : returned[k + 1].at >= returned[k].at + 512
    /\ \A k \in 1..Len(returned) : returned[k].at + 512 <= Len(data)
    /\ Len(returned) * 512 <= Len(data)
    /\ (calls > Len(data) \div 512 => AnyFailed)

\* a source of two blocks: the third call has failed after one entry was
\* returned and partly read
C20_Witness ==
    /\ Len(data) = 2 * BLOCK_SIZE
    /\ calls = 3
    /\ Len(returned) = 1
    /\ last.op = "next_entry"
    /\ ~last.ok
    /\ last.adv0 < BLOCK_SIZE

====
